---- MODULE Spec2Model ----
(***************************************************************************)
(* Model of effects.go: the NanoEffects client of a Nanoleaf controller.   *)
(*                                                                         *)
(* Every operation is one HTTP round trip: it builds a request, blocks in  *)
(* the transport, and maps the response (transport error, status, body) to *)
(* its return values.  An operation is modelled by the action that issues  *)
(* the request and by the operator that maps the response to the return    *)
(* values; Respond is the transport handing a response to a blocked call.  *)
(*                                                                         *)
(* Go values: string -> string, bool -> BOOLEAN, int -> Int, slice ->      *)
(* sequence (nil and empty are both << >>), struct -> record,              *)
(* jsonPayload (map[string]interface{}) -> record.                         *)
(***************************************************************************)
EXTENDS Integers, Sequences, FiniteSets

VARIABLES
    nano,       \* the *Nanoleaf the client was built from: url and token
    endpoint,   \* NanoEffects.endpoint
    pc,         \* per caller: "idle", "waiting" (blocked in Get/Put), "done"
    req,        \* per caller: the request of the call in progress / last call
    resp,       \* per caller: the response the transport gave to that call
    result,     \* per caller: what the call returned
    effect,     \* the StreamEffect a caller is building
    encoded     \* the last ToString result, with the effect it was made from

vars == <<nano, endpoint, pc, req, resp, result, effect, encoded>>

-----------------------------------------------------------------------------
(* net/http status codes used by effects.go *)

StatusOK == 200
StatusNoContent == 204
StatusUnauthorized == 401
StatusNotFound == 404

(* the package's error values; NoErr is Go's nil error *)
NoErr == "nil"
ErrUnauthorized == "ErrUnauthorized"
ErrEffectNotFound == "ErrEffectNotFound"
ErrUnexpectedResponse == "ErrUnexpectedResponse"
ErrParsingJSON == "ErrParsingJSON"

-----------------------------------------------------------------------------
(* JSON documents, as encoding/json sees a syntactically valid body *)

JNull == [k |-> "null", v |-> 0]
JStr(s) == [k |-> "string", v |-> s]
JNum(n) == [k |-> "number", v |-> n]
JBool(b) == [k |-> "bool", v |-> b]
JArr(items) == [k |-> "array", v |-> items]
JObj(members) == [k |-> "object", v |-> members]
Member(key, val) == [key |-> key, val |-> val]

(* a response body: bytes that are not JSON at all, or a JSON document *)
BadSyntax == [valid |-> FALSE, json |-> JNull]
Doc(j) == [valid |-> TRUE, json |-> j]

-----------------------------------------------------------------------------
(* Go types, as far as json.Unmarshal distinguishes them *)

TString == [t |-> "string"]
TBool == [t |-> "bool"]
TInt == [t |-> "int"]
TFloat == [t |-> "float64"]
TAny == [t |-> "interface"]
TSlice(elem) == [t |-> "slice", elem |-> elem]
TStruct(fields) == [t |-> "struct", fields |-> fields]
(* a struct field: its Go name, its json tag, whether the tag says        *)
(* omitempty, and its type                                                 *)
Field(name, tag, omitempty, type) ==
    [name |-> name, tag |-> tag, omitempty |-> omitempty, type |-> type]

TPaletteColor ==
    TStruct(<< Field("Hue", "hue", FALSE, TInt),
               Field("Saturation", "saturation", FALSE, TInt),
               Field("Brightness", "brightness", FALSE, TInt),
               Field("Probability", "probability", FALSE, TFloat) >>)

TPluginOption ==
    TStruct(<< Field("Name", "name", FALSE, TString),
               Field("Value", "value", FALSE, TAny) >>)

TEffectData ==
    TStruct(<< Field("Command", "command", TRUE, TString),
               Field("Loop", "loop", TRUE, TBool),
               Field("Name", "animName", TRUE, TString),
               Field("Type", "animType", TRUE, TString),
               Field("Version", "version", TRUE, TString),
               Field("Data", "animData", TRUE, TString),
               Field("ColorType", "colorType", TRUE, TString),
               Field("Palette", "palette", TRUE, TSlice(TPaletteColor)),
               Field("PluginType", "pluginType", TRUE, TString),
               Field("PluginUuid", "pluginUuid", TRUE, TString),
               Field("PluginOptions", "pluginOptions", TRUE, TSlice(TPluginOption)),
               Field("OverlayPalette", "overlayPalette", TRUE, TSlice(TPaletteColor)),
               Field("OverlayColorType", "overlayColorType", TRUE, TString),
               Field("HasOverlay", "hasOverlay", TRUE, TBool),
               Field("LogicalPanelsEnabled", "logicalPanelsEnabled", TRUE, TBool) >>)

(* the anonymous struct { Animations []EffectData `json:"animations"` } *)
TAnimations ==
    TStruct(<< Field("Animations", "animations", FALSE, TSlice(TEffectData)) >>)

FieldNames(T) == { T.fields[i].name : i \in 1..Len(T.fields) }
FieldOf(T, name) == CHOOSE f \in { T.fields[i] : i \in 1..Len(T.fields) } : f.name = name

RECURSIVE Zero(_)
(* the zero value of a Go type *)
Zero(T) ==
    CASE T.t = "string" -> ""
      [] T.t = "bool" -> FALSE
      [] T.t = "int" -> 0
      [] T.t = "float64" -> 0
      [] T.t = "interface" -> JNull
      [] T.t = "slice" -> << >>
      [] T.t = "struct" -> [n \in FieldNames(T) |-> Zero(FieldOf(T, n).type)]

-----------------------------------------------------------------------------
(* json.Unmarshal(body, &target).  A body that is not valid JSON is refused *)
(* before the target is touched.  In a valid document a value of the wrong *)
(* JSON kind is skipped and recorded as an error, and decoding goes on: the*)
(* target keeps everything that was decoded before and after it.           *)

RECURSIVE Decode(_, _, _), DecodeMembers(_, _, _, _, _)

TypeError(cur) == [val |-> cur, err |-> TRUE]
Decoded(val) == [val |-> val, err |-> FALSE]

Decode(T, j, cur) ==
    IF j.k = "null"
    THEN Decoded(IF T.t \in {"slice", "interface"} THEN Zero(T) ELSE cur)
    ELSE
    CASE T.t = "string" ->
            IF j.k = "string" THEN Decoded(j.v) ELSE TypeError(cur)
      [] T.t = "bool" ->
            IF j.k = "bool" THEN Decoded(j.v) ELSE TypeError(cur)
      [] T.t \in {"int", "float64"} ->
            IF j.k = "number" THEN Decoded(j.v) ELSE TypeError(cur)
      [] T.t = "interface" -> Decoded(j)
      [] T.t = "slice" ->
            IF j.k = "array"
            THEN LET items == [i \in 1..Len(j.v) |->
                                 Decode(T.elem, j.v[i], Zero(T.elem))]
                 IN  [val |-> [i \in 1..Len(j.v) |-> items[i].val],
                      err |-> \E i \in 1..Len(j.v) : items[i].err]
            ELSE TypeError(cur)
      [] T.t = "struct" ->
            IF j.k = "object"
            THEN DecodeMembers(T, j.v, 1, cur, FALSE)
            ELSE TypeError(cur)

(* the members of a JSON object, in document order, into the struct's      *)
(* fields; a key that names no field is skipped                            *)
DecodeMembers(T, members, i, cur, err) ==
    IF i > Len(members) THEN [val |-> cur, err |-> err]
    ELSE LET m == members[i]
             hit == { n \in FieldNames(T) : FieldOf(T, n).tag = m.key }
         IN  IF hit = {} THEN DecodeMembers(T, members, i + 1, cur, err)
             ELSE LET n == CHOOSE x \in hit : TRUE
                      d == Decode(FieldOf(T, n).type, m.val, cur[n])
                  IN  DecodeMembers(T, members, i + 1,
                                    [cur EXCEPT ![n] = d.val], err \/ d.err)

Unmarshal(body, T, cur) ==
    IF ~body.valid THEN TypeError(cur) ELSE Decode(T, body.json, cur)

(* json.Marshal of a value of type T, as the transport does with the body  *)
(* given to SetBody: struct fields in declaration order under their tags,  *)
(* an omitempty field left out when it holds its empty value               *)
IsEmptyValue(T, v) ==
    CASE T.t = "string" -> v = ""
      [] T.t = "bool" -> v = FALSE
      [] T.t \in {"int", "float64"} -> v = 0
      [] T.t = "interface" -> v.k = "null"
      [] T.t = "slice" -> Len(v) = 0
      [] T.t = "struct" -> FALSE

RECURSIVE Marshal(_, _), MarshalFields(_, _, _)

Marshal(T, v) ==
    CASE T.t = "string" -> JStr(v)
      [] T.t = "bool" -> JBool(v)
      [] T.t \in {"int", "float64"} -> JNum(v)
      [] T.t = "interface" -> v
      [] T.t = "slice" ->
            IF Len(v) = 0 THEN JNull
            ELSE JArr([i \in 1..Len(v) |-> Marshal(T.elem, v[i])])
      [] T.t = "struct" -> JObj(MarshalFields(T, v, 1))

MarshalFields(T, v, i) ==
    IF i > Len(T.fields) THEN << >>
    ELSE LET f == T.fields[i]
         IN  IF f.omitempty /\ IsEmptyValue(f.type, v[f.name])
             THEN MarshalFields(T, v, i + 1)
             ELSE <<Member(f.tag, Marshal(f.type, v[f.name]))>>
                  \o MarshalFields(T, v, i + 1)

-----------------------------------------------------------------------------
(* What the transport hands back: resp, err := ...Get(url) / ...Put(url).  *)
(* With err set there is no usable response.  Each call on the response    *)
(* (StatusCode, Body) is recorded in steps, in program order.              *)

NoValue == "(no value)"
Ret(val, err, steps) == [val |-> val, err |-> err, steps |-> steps]

(* resp.StatusCode() evaluated n times *)
RECURSIVE StatusCodeCalls(_)
StatusCodeCalls(n) == IF n = 0 THEN << >> ELSE StatusCodeCalls(n - 1) \o <<"StatusCode">>

(* List with 404 given the named-effect treatment *)
ListReturnNotFound(r) ==
    IF r.err # NoErr THEN Ret(<< >>, r.err, << >>)
    ELSE IF r.status = StatusUnauthorized
         THEN Ret(<< >>, ErrUnauthorized, StatusCodeCalls(1))
    ELSE IF r.status = StatusNotFound
         THEN Ret(<< >>, ErrEffectNotFound, StatusCodeCalls(2))
    ELSE IF r.status # StatusOK
         THEN Ret(<< >>, ErrUnexpectedResponse, StatusCodeCalls(3))
    ELSE LET u == Unmarshal(r.body, TSlice(TString), << >>)
         IN  IF u.err
             THEN Ret(<< >>, ErrParsingJSON, StatusCodeCalls(3) \o <<"Body">>)
             ELSE Ret(u.val, NoErr, StatusCodeCalls(3) \o <<"Body">>)

ListReturn(r) ==
    IF r.err # NoErr THEN Ret(<< >>, r.err, << >>)
    ELSE IF r.status = StatusUnauthorized
         THEN Ret(<< >>, ErrUnauthorized, StatusCodeCalls(1))
    ELSE IF r.status # StatusOK
         THEN Ret(<< >>, ErrUnexpectedResponse, StatusCodeCalls(2))
    ELSE LET u == Unmarshal(r.body, TSlice(TString), << >>)
         IN  IF u.err
             THEN Ret(<< >>, ErrParsingJSON, StatusCodeCalls(2) \o <<"Body">>)
             ELSE Ret(u.val, NoErr, StatusCodeCalls(2) \o <<"Body">>)

SetReturn(r) ==
    IF r.err # NoErr THEN Ret(NoValue, r.err, << >>)
    ELSE IF r.status = StatusUnauthorized
         THEN Ret(NoValue, ErrUnauthorized, StatusCodeCalls(1))
    ELSE IF r.status = StatusNotFound
         THEN Ret(NoValue, ErrEffectNotFound, StatusCodeCalls(2))
    ELSE IF r.status # StatusNoContent
         THEN Ret(NoValue, ErrUnexpectedResponse, StatusCodeCalls(3))
    ELSE Ret(NoValue, NoErr, StatusCodeCalls(3))

GetReturn(r) ==
    IF r.err # NoErr THEN Ret("", r.err, << >>)
    ELSE IF r.status = StatusUnauthorized
         THEN Ret("", ErrUnauthorized, StatusCodeCalls(1))
    ELSE IF r.status # StatusOK
         THEN Ret("", ErrUnexpectedResponse, StatusCodeCalls(2))
    ELSE LET u == Unmarshal(r.body, TString, "")
         IN  IF u.err
             THEN Ret("", ErrParsingJSON, StatusCodeCalls(2) \o <<"Body">>)
             ELSE Ret(u.val, NoErr, StatusCodeCalls(2) \o <<"Body">>)

(* GetEffectData decoding the body before it looks at the status *)
GetEffectDataReturnDecodeFirst(r) ==
    LET data == Zero(TEffectData)
    IN  IF r.err # NoErr THEN Ret(data, r.err, << >>)
        ELSE LET u == Unmarshal(r.body, TEffectData, data)
             IN  IF u.err THEN Ret(u.val, ErrParsingJSON, <<"Body">>)
                 ELSE IF r.status = StatusUnauthorized
                      THEN Ret(data, ErrUnauthorized, <<"Body">> \o StatusCodeCalls(1))
                 ELSE IF r.status = StatusNotFound
                      THEN Ret(data, ErrEffectNotFound, <<"Body">> \o StatusCodeCalls(2))
                 ELSE IF r.status # StatusOK
                      THEN Ret(data, ErrUnexpectedResponse,
                               <<"Body">> \o StatusCodeCalls(3))
                 ELSE Ret(u.val, NoErr, <<"Body">> \o StatusCodeCalls(3))

(* data is declared before the request and is what every return hands back *)
GetEffectDataReturn(r) ==
    LET data == Zero(TEffectData)
    IN  IF r.err # NoErr THEN Ret(data, r.err, << >>)
        ELSE IF r.status = StatusUnauthorized
             THEN Ret(data, ErrUnauthorized, StatusCodeCalls(1))
        ELSE IF r.status = StatusNotFound
             THEN Ret(data, ErrEffectNotFound, StatusCodeCalls(2))
        ELSE IF r.status # StatusOK
             THEN Ret(data, ErrUnexpectedResponse, StatusCodeCalls(3))
        ELSE LET u == Unmarshal(r.body, TEffectData, data)
             IN  IF u.err
                 THEN Ret(u.val, ErrParsingJSON, StatusCodeCalls(3) \o <<"Body">>)
                 ELSE Ret(u.val, NoErr, StatusCodeCalls(3) \o <<"Body">>)

(* animations is the local struct; every return hands back its Animations *)
GetAllEffectDataReturn(r) ==
    LET animations == Zero(TAnimations)
    IN  IF r.err # NoErr THEN Ret(animations.Animations, r.err, << >>)
        ELSE IF r.status = StatusUnauthorized
             THEN Ret(animations.Animations, ErrUnauthorized, StatusCodeCalls(1))
        ELSE IF r.status = StatusNotFound
             THEN Ret(animations.Animations, ErrEffectNotFound, StatusCodeCalls(2))
        ELSE IF r.status # StatusOK
             THEN Ret(animations.Animations, ErrUnexpectedResponse, StatusCodeCalls(3))
        ELSE LET u == Unmarshal(r.body, TAnimations, animations)
             IN  IF u.err
                 THEN Ret(u.val.Animations, ErrParsingJSON,
                          StatusCodeCalls(3) \o <<"Body">>)
                 ELSE Ret(u.val.Animations, NoErr,
                          StatusCodeCalls(3) \o <<"Body">>)

(* RenameEffect taking 200 for success as well as 204 *)
RenameEffectReturnAny2xx(r) ==
    IF r.err # NoErr THEN Ret(NoValue, r.err, << >>)
    ELSE IF r.status = StatusUnauthorized
         THEN Ret(NoValue, ErrUnauthorized, StatusCodeCalls(1))
    ELSE IF r.status = StatusNotFound
         THEN Ret(NoValue, ErrEffectNotFound, StatusCodeCalls(2))
    ELSE IF r.status # StatusNoContent /\ r.status # StatusOK
         THEN Ret(NoValue, ErrUnexpectedResponse, StatusCodeCalls(4))
    ELSE Ret(NoValue, NoErr, StatusCodeCalls(4))

RenameEffectReturn(r) ==
    IF r.err # NoErr THEN Ret(NoValue, r.err, << >>)
    ELSE IF r.status = StatusUnauthorized
         THEN Ret(NoValue, ErrUnauthorized, StatusCodeCalls(1))
    ELSE IF r.status = StatusNotFound
         THEN Ret(NoValue, ErrEffectNotFound, StatusCodeCalls(2))
    ELSE IF r.status # StatusNoContent
         THEN Ret(NoValue, ErrUnexpectedResponse, StatusCodeCalls(3))
    ELSE Ret(NoValue, NoErr, StatusCodeCalls(3))

AddEffectReturn(r) ==
    IF r.err # NoErr THEN Ret(NoValue, r.err, << >>)
    ELSE IF r.status = StatusUnauthorized
         THEN Ret(NoValue, ErrUnauthorized, StatusCodeCalls(1))
    ELSE IF r.status = StatusNotFound
         THEN Ret(NoValue, ErrEffectNotFound, StatusCodeCalls(2))
    ELSE IF r.status # StatusNoContent
         THEN Ret(NoValue, ErrUnexpectedResponse, StatusCodeCalls(3))
    ELSE Ret(NoValue, NoErr, StatusCodeCalls(3))

(* DeleteEffect without the 404 check *)
DeleteEffectReturnNo404(r) ==
    IF r.err # NoErr THEN Ret(NoValue, r.err, << >>)
    ELSE IF r.status = StatusUnauthorized
         THEN Ret(NoValue, ErrUnauthorized, StatusCodeCalls(1))
    ELSE IF r.status # StatusNoContent
         THEN Ret(NoValue, ErrUnexpectedResponse, StatusCodeCalls(2))
    ELSE Ret(NoValue, NoErr, StatusCodeCalls(2))

DeleteEffectReturn(r) ==
    IF r.err # NoErr THEN Ret(NoValue, r.err, << >>)
    ELSE IF r.status = StatusUnauthorized
         THEN Ret(NoValue, ErrUnauthorized, StatusCodeCalls(1))
    ELSE IF r.status = StatusNotFound
         THEN Ret(NoValue, ErrEffectNotFound, StatusCodeCalls(2))
    ELSE IF r.status # StatusNoContent
         THEN Ret(NoValue, ErrUnexpectedResponse, StatusCodeCalls(3))
    ELSE Ret(NoValue, NoErr, StatusCodeCalls(3))

(* WriteRaw without the 401 check *)
WriteRawReturnNo401(r) ==
    IF r.err # NoErr THEN Ret(NoValue, r.err, << >>)
    ELSE IF r.status # StatusNoContent
         THEN Ret(NoValue, ErrUnexpectedResponse, StatusCodeCalls(1))
    ELSE Ret(NoValue, NoErr, StatusCodeCalls(1))

WriteRawReturn(r) ==
    IF r.err # NoErr THEN Ret(NoValue, r.err, << >>)
    ELSE IF r.status = StatusUnauthorized
         THEN Ret(NoValue, ErrUnauthorized, StatusCodeCalls(1))
    ELSE IF r.status # StatusNoContent
         THEN Ret(NoValue, ErrUnexpectedResponse, StatusCodeCalls(2))
    ELSE Ret(NoValue, NoErr, StatusCodeCalls(2))

(* Display and DisplayTemp return e.WriteRaw(body) *)
DisplayReturn(r) == WriteRawReturn(r)
DisplayTempReturn(r) == WriteRawReturn(r)

Return(op, r) ==
    CASE op = "List" -> ListReturn(r)
      [] op = "Set" -> SetReturn(r)
      [] op = "Get" -> GetReturn(r)
      [] op = "GetEffectData" -> GetEffectDataReturn(r)
      [] op = "GetAllEffectData" -> GetAllEffectDataReturn(r)
      [] op = "RenameEffect" -> RenameEffectReturn(r)
      [] op = "AddEffect" -> AddEffectReturn(r)
      [] op = "DeleteEffect" -> DeleteEffectReturn(r)
      [] op = "WriteRaw" -> WriteRawReturn(r)
      [] op = "Display" -> DisplayReturn(r)
      [] op = "DisplayTemp" -> DisplayTempReturn(r)

-----------------------------------------------------------------------------
(* ToString.  A Go string is modelled as the sequence of its characters,   *)
(* and fmt.Sprintf by what it appends: %d is the decimal text of an int,   *)
(* %s the string itself, and the rest of the format is copied.             *)

DigitChars == <<"0", "1", "2", "3", "4", "5", "6", "7", "8", "9">>

RECURSIVE Digits(_)
Digits(n) ==
    IF n < 10 THEN <<DigitChars[n + 1]>>
    ELSE Digits(n \div 10) \o <<DigitChars[(n % 10) + 1]>>

(* fmt.Sprintf("%d", n) *)
FmtD(n) == IF n < 0 THEN <<"-">> \o Digits(-n) ELSE Digits(n)

(* the frame written with blue before green *)
FrameToStringBlueFirst(data, frame) ==
    data \o <<" ">> \o FmtD(frame.Red) \o <<" ">> \o FmtD(frame.Blue)
         \o <<" ">> \o FmtD(frame.Green) \o <<" ", "0", " ">>
         \o FmtD(frame.Transition)

(* fmt.Sprintf("%s %d %d %d 0 %d", data, Red, Green, Blue, Transition) *)
FrameToString(data, frame) ==
    data \o <<" ">> \o FmtD(frame.Red) \o <<" ">> \o FmtD(frame.Green)
         \o <<" ">> \o FmtD(frame.Blue) \o <<" ", "0", " ">>
         \o FmtD(frame.Transition)

(* for _, frame := range panel.Frames, from index i on *)
RECURSIVE FramesToString(_, _, _)
FramesToString(data, frames, i) ==
    IF i > Len(frames) THEN data
    ELSE FramesToString(FrameToString(data, frames[i]), frames, i + 1)

(* fmt.Sprintf("%s %d %d", data, panel.ID, len(panel.Frames)), then frames *)
PanelToString(data, panel) ==
    FramesToString(data \o <<" ">> \o FmtD(panel.ID) \o <<" ">>
                        \o FmtD(Len(panel.Frames)),
                   panel.Frames, 1)

(* for _, panel := range effect.Panels, from index i on *)
RECURSIVE PanelsToString(_, _, _)
PanelsToString(data, panels, i) ==
    IF i > Len(panels) THEN data
    ELSE PanelsToString(PanelToString(data, panels[i]), panels, i + 1)

(* the text ended with a delimiter *)
ToStringTrailingSpace(e) ==
    PanelsToString(FmtD(Len(e.Panels)), e.Panels, 1) \o <<" ">>

ToString(e) == PanelsToString(FmtD(Len(e.Panels)), e.Panels, 1)

-----------------------------------------------------------------------------
(* Inputs *)

MaxPanels == 2
MaxFrames == 2

Callers == {"c1", "c2"}
Names == {"Flow", "Rainbow"}
AddNames == Names \cup {""}
Durations == {5}

SeqsUpTo(S, n) == UNION { [1..k -> S] : k \in 0..n }

FrameSet ==
    { [Red |-> 255, Green |-> 0, Blue |-> 0, Transition |-> 5],
      [Red |-> 0, Green |-> 128, Blue |-> 255, Transition |-> 30] }
PanelIDs == {2, 117}
PanelSet ==
    { [ID |-> id, Frames |-> fs] : id \in PanelIDs, fs \in SeqsUpTo(FrameSet, MaxFrames) }
StreamEffects == { [Panels |-> ps] : ps \in SeqsUpTo(PanelSet, MaxPanels) }

(* two panels: one frame (255,0,0,t=5); two frames (0,255,0,t=3), (0,0,255,t=7) *)
ScenarioEffect ==
    [Panels |->
        << [ID |-> 1, Frames |->
               << [Red |-> 255, Green |-> 0, Blue |-> 0, Transition |-> 5] >>],
           [ID |-> 2, Frames |->
               << [Red |-> 0, Green |-> 255, Blue |-> 0, Transition |-> 3],
                  [Red |-> 0, Green |-> 0, Blue |-> 255, Transition |-> 7] >>] >>]

(* EffectData values a caller hands to AddEffect *)
CustomEffect ==
    [Zero(TEffectData) EXCEPT !.Command = "delete", !.Name = "Other",
                              !.Type = "custom", !.ColorType = "RGB",
                              !.Loop = TRUE, !.Version = "1.0"]
PluginEffect ==
    [Zero(TEffectData) EXCEPT !.Name = "Flow", !.Type = "plugin",
        !.Version = "2.0", !.ColorType = "HSB", !.PluginType = "color",
        !.PluginUuid = "027842e4-e1d6-4a4c-a731-be74a1ebd4cf",
        !.Palette = << [Hue |-> 120, Saturation |-> 100, Brightness |-> 80,
                        Probability |-> 0] >>,
        !.PluginOptions = << [Name |-> "transTime", Value |-> JNum(24)] >>,
        !.HasOverlay = TRUE]
EffectDatas == {Zero(TEffectData), CustomEffect, PluginEffect}

RawPayloads ==
    { [write |-> [command |-> "delete", animName |-> "Flow"]],
      [select |-> "Rainbow"] }

(* response bodies *)
ListDoc == Doc(JArr(<<JStr("Flow"), JStr("Rainbow")>>))
MixedListDoc == Doc(JArr(<<JStr("Flow"), JNum(5)>>))
StringDoc == Doc(JStr("Flow"))
EffectDoc ==
    Doc(JObj(<< Member("animName", JStr("Flow")),
                Member("animType", JStr("plugin")),
                Member("loop", JBool(TRUE)),
                Member("palette", JArr(<< JObj(<< Member("hue", JNum(120)),
                                                  Member("saturation", JNum(100)),
                                                  Member("brightness", JNum(80)),
                                                  Member("probability", JNum(0)) >>) >>)),
                Member("unknownKey", JNum(1)) >>))
MixedEffectDoc ==
    Doc(JObj(<< Member("animName", JStr("Flow")),
                Member("loop", JStr("yes")),
                Member("animType", JStr("custom")) >>))
AnimationsDoc ==
    Doc(JObj(<< Member("animations",
                       JArr(<< JObj(<< Member("animName", JStr("Flow")) >>),
                               JObj(<< Member("animName", JStr("Rainbow")),
                                       Member("loop", JBool(TRUE)) >>) >>)) >>))
MixedAnimationsDoc ==
    Doc(JObj(<< Member("animations",
                       JArr(<< JObj(<< Member("animName", JStr("Flow")) >>),
                               JObj(<< Member("animName", JNum(7)) >>) >>)) >>))

Bodies ==
    { BadSyntax, ListDoc, MixedListDoc, StringDoc, EffectDoc, MixedEffectDoc,
      AnimationsDoc, MixedAnimationsDoc }
ErrorBodies == { BadSyntax, ListDoc, EffectDoc }
TransportErrs == { "dial tcp: i/o timeout", "connection refused" }
Statuses ==
    { StatusOK, 201, StatusNoContent, StatusUnauthorized, 403, StatusNotFound, 500 }

Responses ==
    { [err |-> e, status |-> 0, body |-> BadSyntax] : e \in TransportErrs }
    \cup { [err |-> NoErr, status |-> StatusOK, body |-> b] : b \in Bodies }
    \cup { [err |-> NoErr, status |-> s, body |-> b] :
              s \in Statuses \ {StatusOK}, b \in ErrorBodies }

ConcResponses ==
    { [err |-> "connection refused", status |-> 0, body |-> BadSyntax] }
    \cup { [err |-> NoErr, status |-> StatusOK, body |-> b] :
              b \in {BadSyntax, ListDoc, StringDoc, EffectDoc, AnimationsDoc} }
    \cup { [err |-> NoErr, status |-> s, body |-> BadSyntax] :
              s \in Statuses \ {StatusOK} }

-----------------------------------------------------------------------------
(* State *)

NoBody == [none |-> TRUE]
NoReq == [op |-> "", method |-> "", url |-> "", body |-> NoBody, args |-> << >>]
NoResp == [err |-> NoErr, status |-> 0, body |-> BadSyntax]
NoResult == Ret(NoValue, NoErr, << >>)
NotEncoded == [done |-> FALSE, data |-> << >>]

(* fmt.Sprintf("%s/%s/effects", nano.url, nano.token) *)
newNanoEffects(n) == n.url \o "/" \o n.token \o "/effects"

InitFacade ==
    /\ nano = [url |-> "http://192.168.1.20:16021/api/v1", token |-> "t0k3n",
               client |-> "resty"]
    /\ endpoint = newNanoEffects(nano)
    /\ pc = [c \in Callers |-> "idle"]
    /\ req = [c \in Callers |-> NoReq]
    /\ resp = [c \in Callers |-> NoResp]
    /\ result = [c \in Callers |-> NoResult]

Init ==
    /\ InitFacade
    /\ effect = ScenarioEffect
    /\ encoded = NotEncoded

InitEnc ==
    /\ InitFacade
    /\ effect \in StreamEffects
    /\ encoded = NotEncoded

-----------------------------------------------------------------------------
(* The operations.  Each builds its request and blocks in the transport.   *)

(* e.nano.client.R()...Get(url) / ...SetBody(body).Put(url): the request   *)
(* leaves and the caller blocks until the transport returns                *)
Send(c, op, method, url, body, args) ==
    /\ pc[c] # "waiting"
    /\ pc' = [pc EXCEPT ![c] = "waiting"]
    /\ req' = [req EXCEPT ![c] = [op |-> op, method |-> method, url |-> url,
                                  body |-> body, args |-> args]]
    /\ resp' = [resp EXCEPT ![c] = NoResp]
    /\ result' = [result EXCEPT ![c] = NoResult]
    /\ UNCHANGED <<nano, endpoint, effect, encoded>>

List(c) == Send(c, "List", "GET", endpoint \o "/effectsList", NoBody, << >>)

Set(c, name) ==
    Send(c, "Set", "PUT", endpoint, [select |-> name], <<name>>)

Get(c) == Send(c, "Get", "GET", endpoint \o "/select", NoBody, << >>)

GetEffectData(c, name) ==
    Send(c, "GetEffectData", "PUT", endpoint,
         [write |-> [command |-> "request", animName |-> name]], <<name>>)

GetAllEffectData(c) ==
    Send(c, "GetAllEffectData", "PUT", endpoint,
         [write |-> [command |-> "requestAll"]], << >>)

RenameEffect(c, animName, newName) ==
    Send(c, "RenameEffect", "PUT", endpoint,
         [write |-> [command |-> "rename", animName |-> animName,
                     newName |-> newName]],
         <<animName, newName>>)

(* the command and the name filled in only where the caller left them empty *)
AddEffectPayloadKeepsCallerValues(data, animName) ==
    [write |-> [data EXCEPT
                  !.Command = IF data.Command = "" THEN "add" ELSE data.Command,
                  !.Name = IF data.Name = "" THEN animName ELSE data.Name]]

(* data is the callee's copy of the argument: the two assignments change   *)
(* the copy that is sent, not the caller's value                           *)
AddEffectPayload(data, animName) ==
    [write |-> [data EXCEPT !.Command = "add", !.Name = animName]]

AddEffect(c, data, animName) ==
    Send(c, "AddEffect", "PUT", endpoint, AddEffectPayload(data, animName),
         <<data, animName>>)

DeleteEffect(c, animName) ==
    Send(c, "DeleteEffect", "PUT", endpoint,
         [write |-> [command |-> "delete", animName |-> animName]], <<animName>>)

WriteRaw(c, body) == Send(c, "WriteRaw", "PUT", endpoint, body, <<body>>)

Display(c, data, loop) ==
    Send(c, "Display", "PUT", endpoint,
         [write |-> [command |-> "display", animType |-> "custom",
                     colorType |-> "RGB", animData |-> data, loop |-> loop]],
         <<data, loop>>)

DisplayTemp(c, animName, duration) ==
    Send(c, "DisplayTemp", "PUT", endpoint,
         [write |-> [command |-> "displayTemp", duration |-> duration,
                     animName |-> animName]],
         <<animName, duration>>)

(* a client that keeps the last result per operation and hands it to a     *)
(* later call of the same operation                                       *)
RespondFromCache(c, r) ==
    /\ pc[c] = "waiting"
    /\ resp' = [resp EXCEPT ![c] = r]
    /\ result' = [result EXCEPT ![c] =
          IF \E d \in Callers \ {c} : pc[d] = "done" /\ req[d].op = req[c].op
          THEN result[CHOOSE d \in Callers \ {c} :
                          pc[d] = "done" /\ req[d].op = req[c].op]
          ELSE Return(req[c].op, r)]
    /\ pc' = [pc EXCEPT ![c] = "done"]
    /\ UNCHANGED <<nano, endpoint, req, effect, encoded>>

(* the transport returns r to the blocked call, which runs to its return *)
Respond(c, r) ==
    /\ pc[c] = "waiting"
    /\ resp' = [resp EXCEPT ![c] = r]
    /\ result' = [result EXCEPT ![c] = Return(req[c].op, r)]
    /\ pc' = [pc EXCEPT ![c] = "done"]
    /\ UNCHANGED <<nano, endpoint, req, effect, encoded>>

(* a caller encodes its StreamEffect *)
Encode ==
    /\ ~encoded.done
    /\ encoded' = [done |-> TRUE, data |-> ToString(effect)]
    /\ UNCHANGED <<nano, endpoint, pc, req, resp, result, effect>>

(* one caller, every operation with all its inputs and every response *)
Next ==
    \E c \in {"c1"} :
        \/ List(c)
        \/ \E n \in Names : Set(c, n)
        \/ Get(c)
        \/ \E n \in Names : GetEffectData(c, n)
        \/ GetAllEffectData(c)
        \/ \E n \in Names : \E m \in Names \ {n} : RenameEffect(c, n, m)
        \/ \E d \in EffectDatas : \E n \in AddNames : AddEffect(c, d, n)
        \/ \E n \in Names : DeleteEffect(c, n)
        \/ \E b \in RawPayloads : WriteRaw(c, b)
        \/ \E l \in BOOLEAN : Display(c, ToString(effect), l)
        \/ \E n \in Names : \E t \in Durations : DisplayTemp(c, n, t)
        \/ \E r \in Responses : Respond(c, r)

Spec == Init /\ [][Next]_vars

(* several callers on the one client, their calls interleaved *)
NextConc ==
    \E c \in Callers :
        \/ List(c)
        \/ Set(c, "Flow")
        \/ Get(c)
        \/ GetEffectData(c, "Flow")
        \/ GetAllEffectData(c)
        \/ RenameEffect(c, "Flow", "Rainbow")
        \/ AddEffect(c, CustomEffect, "Flow")
        \/ DeleteEffect(c, "Flow")
        \/ \E b \in RawPayloads : WriteRaw(c, b)
        \/ Display(c, ToString(effect), TRUE)
        \/ \E t \in Durations : DisplayTemp(c, "Flow", t)
        \/ \E r \in ConcResponses : Respond(c, r)

SpecConc == Init /\ [][NextConc]_vars

(* the encoder on every StreamEffect within the bounds *)
NextEnc == Encode

SpecEnc == InitEnc /\ [][NextEnc]_vars

-----------------------------------------------------------------------------
(* Properties *)

BodyOps == {"List", "Get", "GetEffectData", "GetAllEffectData"}
NamedEffectOps == {"Set", "GetEffectData", "GetAllEffectData", "RenameEffect",
                   "AddEffect", "DeleteEffect"}

(* caller c's call has returned after the transport delivered a response *)
Answered(c) == pc[c] = "done" /\ resp[c].err = NoErr
(* caller c's call has returned after the transport failed *)
Failed(c) == pc[c] = "done" /\ resp[c].err # NoErr

Occurs(x, seq) == \E i \in 1..Len(seq) : seq[i] = x

(* C2: a 401 response makes every operation return Unauthorized, whatever  *)
(* the request and whatever the body.                                      *)
C2_Unauthorized ==
    \A c \in Callers :
        (Answered(c) /\ resp[c].status = StatusUnauthorized)
            => result[c].err = ErrUnauthorized

C2_Witness ==
    \E c \in Callers :
        /\ Answered(c)
        /\ resp[c].status = StatusUnauthorized
        /\ req[c].op = "GetEffectData"
        /\ resp[c].body = EffectDoc
        /\ result[c].err = ErrUnauthorized

(* C3: a 404 response makes each operation on a named effect (Set,         *)
(* GetEffectData, GetAllEffectData, RenameEffect, AddEffect, DeleteEffect) *)
(* return EffectNotFound, whatever the body.                               *)
C3_NotFound ==
    \A c \in Callers :
        (Answered(c) /\ resp[c].status = StatusNotFound
                     /\ req[c].op \in NamedEffectOps)
            => result[c].err = ErrEffectNotFound

C3_Witness ==
    \E c \in Callers :
        /\ Answered(c)
        /\ resp[c].status = StatusNotFound
        /\ req[c].op = "DeleteEffect"
        /\ resp[c].body = EffectDoc
        /\ result[c].err = ErrEffectNotFound

(* C4, as claimed: a 404 response to List or to Get returns EffectNotFound,*)
(* as it does for the operations on a named effect.                        *)
C4_ListGetNotFound ==
    \A c \in Callers :
        (Answered(c) /\ resp[c].status = StatusNotFound
                     /\ req[c].op \in {"List", "Get"})
            => result[c].err = ErrEffectNotFound

(* C4, amended: a 404 response to List or to Get returns                   *)
(* UnexpectedResponse with the empty result: it is an error, never a       *)
(* success, but not the EffectNotFound of the named-effect operations.     *)
C4_ListGetUnexpected ==
    \A c \in Callers :
        (Answered(c) /\ resp[c].status = StatusNotFound
                     /\ req[c].op \in {"List", "Get"})
            => /\ result[c].err = ErrUnexpectedResponse
               /\ result[c].val = (IF req[c].op = "List" THEN << >> ELSE "")

C4_Witness ==
    \E c \in Callers :
        /\ Answered(c)
        /\ resp[c].status = StatusNotFound
        /\ req[c].op = "List"
        /\ resp[c].body = ListDoc
        /\ result[c].err = ErrUnexpectedResponse

(* the value of member key in a JSON object, JNull when it has none *)
MemberValue(obj, key) ==
    IF \E i \in 1..Len(obj.v) : obj.v[i].key = key
    THEN obj.v[CHOOSE i \in 1..Len(obj.v) : obj.v[i].key = key].val
    ELSE JNull

(* C5: the payload AddEffect(d, n) sends under "write" has command "add"   *)
(* and animName n, whatever d.Command and d.Name were, and every other     *)
(* field as in d; the JSON written for it carries "command":"add" and the  *)
(* name (left out by omitempty only when n is empty) and decodes to that   *)
(* same value.                                                             *)
C5_AddForcesCommandAndName ==
    \A c \in Callers :
        req[c].op = "AddEffect" =>
            LET d == req[c].args[1]
                n == req[c].args[2]
                sent == req[c].body.write
                wire == Marshal(TEffectData, sent)
            IN  /\ DOMAIN req[c].body = {"write"}
                /\ sent.Command = "add"
                /\ sent.Name = n
                /\ \A f \in FieldNames(TEffectData) \ {"Command", "Name"} :
                       sent[f] = d[f]
                /\ MemberValue(wire, "command") = JStr("add")
                /\ MemberValue(wire, "animName") = (IF n = "" THEN JNull ELSE JStr(n))
                /\ Decode(TEffectData, wire, Zero(TEffectData))
                       = Decoded([d EXCEPT !.Command = "add", !.Name = n])

C5_Witness ==
    \E c \in Callers :
        /\ req[c].op = "AddEffect"
        /\ req[c].args[1].Command = "delete"
        /\ req[c].args[1].Name = "Other"
        /\ req[c].args[2] = "Rainbow"
        /\ req[c].body.write.Command = "add"
        /\ req[c].body.write.Name = "Rainbow"
        /\ req[c].body.write.Type = "custom"

ExpectedStatus(op) == IF op \in BodyOps THEN StatusOK ELSE StatusNoContent

(* C6: an operation succeeds only on its one expected status (200 for List,*)
(* Get, GetEffectData, GetAllEffectData; 204 for the others), and any      *)
(* other status that is not 401 or 404 yields UnexpectedResponse.          *)
C6_SuccessOnlyOnExpectedStatus ==
    \A c \in Callers :
        Answered(c) =>
            /\ result[c].err = NoErr => resp[c].status = ExpectedStatus(req[c].op)
            /\ resp[c].status \notin {StatusUnauthorized, StatusNotFound,
                                      ExpectedStatus(req[c].op)}
                  => result[c].err = ErrUnexpectedResponse

C6_Witness ==
    \E c \in Callers :
        /\ Answered(c)
        /\ req[c].op = "RenameEffect"
        /\ resp[c].status = StatusOK
        /\ result[c].err = ErrUnexpectedResponse

(* C7: transport failure, then status, then body.  A transport error is    *)
(* returned as it is with no call on the response; the status is read      *)
(* before the body; the body is read only when the status is 200, so       *)
(* ErrParsingJSON comes only with status 200.                              *)
C7_FailFastOrder ==
    \A c \in Callers :
        /\ Failed(c) => (result[c].err = resp[c].err /\ result[c].steps = << >>)
        /\ Answered(c) =>
              /\ result[c].steps # << >>
              /\ result[c].steps[1] = "StatusCode"
              /\ resp[c].status # StatusOK => ~Occurs("Body", result[c].steps)
              /\ result[c].err = ErrParsingJSON => resp[c].status = StatusOK
        /\ (pc[c] = "done" /\ result[c].err = ErrParsingJSON) => Answered(c)

C7_Witness ==
    \E c \in Callers :
        /\ Answered(c)
        /\ req[c].op = "GetEffectData"
        /\ resp[c].status = 500
        /\ resp[c].body = EffectDoc
        /\ ~Occurs("Body", result[c].steps)
        /\ result[c].err = ErrUnexpectedResponse

ZeroResult(op) ==
    CASE op = "List" -> << >>
      [] op = "Get" -> ""
      [] op = "GetEffectData" -> Zero(TEffectData)
      [] op = "GetAllEffectData" -> << >>

(* C8: when List, Get, GetEffectData or GetAllEffectData fails to decode a *)
(* 200 body it returns MalformedResponse (ErrParsingJSON) with the zero    *)
(* value of its result type, never a partly decoded result.                *)
C8_NoPartialResult ==
    \A c \in Callers :
        (Answered(c) /\ req[c].op \in BodyOps /\ result[c].err = ErrParsingJSON)
            => result[c].val = ZeroResult(req[c].op)


(* a step leaves the client's stored state as it is *)
ClientStateKept == nano' = nano /\ endpoint' = endpoint

(* a step changes one caller's call at most, and a return value written in *)
(* it is the caller's own operation applied to the response to its request *)
OwnCallOnly ==
    \A c \in Callers :
        \/ <<pc[c], req[c], resp[c], result[c]>>' = <<pc[c], req[c], resp[c], result[c]>>
        \/ /\ \A d \in Callers \ {c} :
                 <<pc[d], req[d], resp[d], result[d]>>'
                     = <<pc[d], req[d], resp[d], result[d]>>
           /\ pc'[c] = "done" =>
                 /\ req'[c] = req[c]
                 /\ result'[c] = Return(req[c].op, resp'[c])

(* whatever the other callers are doing, a caller not in a call can start  *)
(* one, and a blocked call returns as soon as the transport answers it     *)
(* (whether it can does not depend on the answer; the answers tried here   *)
(* are those with nothing to decode)                                       *)
NeverWaitsForAnother ==
    \A c \in Callers :
        /\ pc[c] # "waiting" => ENABLED List(c) /\ ENABLED Set(c, "Flow")
        /\ pc[c] = "waiting" =>
              \A r \in { x \in ConcResponses : ~x.body.valid } :
                  ENABLED Respond(c, r)

(* C9: with several callers on one client, in any interleaving, a call's   *)
(* result is its own operation applied to the response to its own request, *)
(* no operation writes the client's url, token or endpoint, and no         *)
(* operation waits for another to complete.                                *)
C9_ConcurrentCallsIndependent ==
    /\ []NeverWaitsForAnother
    /\ [][ClientStateKept /\ OwnCallOnly]_vars

(* two calls of the same operation with the same argument are in flight    *)
(* together and return different results, each from its own response       *)
C9_Witness ==
    /\ pc["c1"] = "done" /\ pc["c2"] = "done"
    /\ req["c1"].op = "GetEffectData" /\ req["c2"].op = "GetEffectData"
    /\ req["c2"].args = req["c1"].args
    /\ resp["c1"].status = StatusOK /\ resp["c1"].body = EffectDoc
    /\ resp["c2"].status = StatusNotFound
    /\ result["c1"].err = NoErr /\ result["c1"].val.Name = "Flow"
    /\ result["c2"].err = ErrEffectNotFound
    /\ endpoint = newNanoEffects(nano)

-----------------------------------------------------------------------------
(* Reading the encoded text back by the format's grammar:                  *)
(*   <panelCount> { <panelID> <frameCount> { <R> <G> <B> 0 <transition> } }*)
(* integers separated by single spaces.                                    *)

(* the text cut at its spaces *)
RECURSIVE Tokens(_, _, _)
Tokens(text, i, cur) ==
    IF i > Len(text) THEN <<cur>>
    ELSE IF text[i] = " " THEN <<cur>> \o Tokens(text, i + 1, << >>)
    ELSE Tokens(text, i + 1, Append(cur, text[i]))

IsDigit(ch) == \E d \in 1..10 : DigitChars[d] = ch
DigitValue(ch) == (CHOOSE d \in 1..10 : DigitChars[d] = ch) - 1

IsNumber(tok) ==
    LET digits == IF Len(tok) > 0 /\ tok[1] = "-" THEN Tail(tok) ELSE tok
    IN  Len(digits) > 0 /\ \A i \in 1..Len(digits) : IsDigit(digits[i])

RECURSIVE DigitsValue(_)
DigitsValue(digits) ==
    IF Len(digits) = 0 THEN 0
    ELSE 10 * DigitsValue(SubSeq(digits, 1, Len(digits) - 1))
         + DigitValue(digits[Len(digits)])

NumberValue(tok) ==
    IF tok[1] = "-" THEN 0 - DigitsValue(Tail(tok)) ELSE DigitsValue(tok)

ParseFailed == [ok |-> FALSE, items |-> << >>, next |-> 0]

(* n frames of five integers each, from position i of the integers *)
RECURSIVE ParseFrames(_, _, _)
ParseFrames(ints, i, n) ==
    IF n = 0 THEN [ok |-> TRUE, items |-> << >>, next |-> i]
    ELSE IF n < 0 \/ i + 4 > Len(ints) THEN ParseFailed
    ELSE LET rest == ParseFrames(ints, i + 5, n - 1)
         IN  IF ~rest.ok THEN ParseFailed
             ELSE [ok |-> TRUE,
                   items |-> << [Red |-> ints[i], Green |-> ints[i + 1],
                                 Blue |-> ints[i + 2], White |-> ints[i + 3],
                                 Transition |-> ints[i + 4]] >> \o rest.items,
                   next |-> rest.next]

(* n panels, each an ID, a frame count and its frames *)
RECURSIVE ParsePanels(_, _, _)
ParsePanels(ints, i, n) ==
    IF n = 0 THEN [ok |-> TRUE, items |-> << >>, next |-> i]
    ELSE IF n < 0 \/ i + 1 > Len(ints) THEN ParseFailed
    ELSE LET frames == ParseFrames(ints, i + 2, ints[i + 1])
         IN  IF ~frames.ok THEN ParseFailed
             ELSE LET rest == ParsePanels(ints, frames.next, n - 1)
                  IN  IF ~rest.ok THEN ParseFailed
                      ELSE [ok |-> TRUE,
                            items |-> << [ID |-> ints[i],
                                          FrameCount |-> ints[i + 1],
                                          Frames |-> frames.items] >>
                                      \o rest.items,
                            next |-> rest.next]

(* the whole text: ok only if every token is an integer and the grammar    *)
(* uses all of them                                                        *)
ParseEffect(text) ==
    LET toks == Tokens(text, 1, << >>)
    IN  IF \E i \in 1..Len(toks) : ~IsNumber(toks[i])
        THEN [ok |-> FALSE, count |-> 0, panels |-> << >>]
        ELSE LET ints == [i \in 1..Len(toks) |-> NumberValue(toks[i])]
                 ps == ParsePanels(ints, 2, ints[1])
             IN  [ok |-> ps.ok /\ ps.next = Len(ints) + 1,
                  count |-> ints[1],
                  panels |-> ps.items]

(* C1: parsing ToString(A) by the grammar uses the whole string and gives  *)
(* back the panel count, every panel's ID and frame count, and every       *)
(* frame's (red, green, blue, 0, transition), in the original order.       *)
C1_RoundTrip ==
    encoded.done =>
        LET p == ParseEffect(encoded.data)
            panels == effect.Panels
        IN  /\ p.ok
            /\ p.count = Len(panels)
            /\ Len(p.panels) = Len(panels)
            /\ \A i \in 1..Len(panels) :
                  /\ p.panels[i].ID = panels[i].ID
                  /\ p.panels[i].FrameCount = Len(panels[i].Frames)
                  /\ Len(p.panels[i].Frames) = Len(panels[i].Frames)
                  /\ \A j \in 1..Len(panels[i].Frames) :
                        p.panels[i].Frames[j]
                            = [Red |-> panels[i].Frames[j].Red,
                               Green |-> panels[i].Frames[j].Green,
                               Blue |-> panels[i].Frames[j].Blue,
                               White |-> 0,
                               Transition |-> panels[i].Frames[j].Transition]

(* two different panels, the second with two different frames *)
C1_Witness ==
    /\ encoded.done
    /\ Len(effect.Panels) = 2
    /\ effect.Panels[1].ID # effect.Panels[2].ID
    /\ Len(effect.Panels[1].Frames) = 1
    /\ Len(effect.Panels[2].Frames) = 2
    /\ effect.Panels[2].Frames[1] # effect.Panels[2].Frames[2]
    /\ ParseEffect(encoded.data).ok

(* C10: ToString of a StreamEffect with no panels is exactly "0".          *)
C10_ZeroPanels ==
    (encoded.done /\ Len(effect.Panels) = 0) => encoded.data = <<"0">>

C10_Witness ==
    /\ encoded.done
    /\ effect.Panels = << >>
    /\ Len(encoded.data) = 1

====
